---- MODULE Spec2Model ----
(***************************************************************************)
(* Model of django-reactive's expression compiler                          *)
(* (src/core/expressions.py, src/core/reactive_function.py).               *)
(*                                                                         *)
(* A text is a sequence of one-character strings.  An expression node is a *)
(* record tagged by its class name.  Every call of the program is an       *)
(* action that records the call in `call` and what it returned or raised   *)
(* in `ret`.                                                               *)
(***************************************************************************)
EXTENDS Integers, Sequences, FiniteSets, TLC

VARIABLES expression, node, call, ret

vars == <<expression, node, call, ret>>

(***************************************************************************)
(* Bounds of the model.                                                    *)
(***************************************************************************)
\* longest text handed to smart_split
MaxSplitLen == 6
\* longest text of the exhaustive family handed to parse_expression
MaxTextLen == 3
\* most digits of an integer literal, longest body of a quoted literal
MaxDigits == 2
MaxBody == 2
\* most entries of a dict literal
MaxEntries == 2
\* deepest nesting of the generated expressions
MaxDepth == 2

(***************************************************************************)
(* Texts.                                                                  *)
(***************************************************************************)
TextsOver(chars, n) == UNION {[1..k -> chars] : k \in 0..n}

\* Python's s[a:b] for 1-based a and exclusive 1-based b, clipped like a slice
Slice(s, a, b) == SubSeq(s, a, b - 1)

\* the value Python's None, and a raised exception
None == [cls |-> "NoneType"]
Raise(kind, msg) == [cls |-> "raise", exc |-> kind, text |-> msg]
IsRaise(v) == v.cls = "raise"

\* no tree yet, no call yet
NoNode == [cls |-> "unset"]
NoCall == [op |-> "none"]

\* a Python str value
Str(s) == [cls |-> "str", s |-> s]

(***************************************************************************)
(* smart_split                                                             *)
(***************************************************************************)
common_delimiters == << <<"(", ")">>, <<"[", "]">>, <<"{", "}">> >>

match_and_return_second(char, pairs) ==
    IF \E k \in 1..Len(pairs) : pairs[k][1] = char
    THEN LET k == CHOOSE k \in 1..Len(pairs) :
                     /\ pairs[k][1] = char
                     /\ \A j \in 1..(k - 1) : pairs[j][1] # char
         IN  Str(pairs[k][2])
    ELSE None

\* The generator's loop: loc is the position scanned, i the start of the
\* piece being collected, stack the end_delimiters_stack, out what has been
\* yielded so far.
RECURSIVE smart_split_loop(_, _, _, _, _, _, _)
smart_split_loop(expr, seperator, delimiters, loc, i, stack, out) ==
    IF loc > Len(expr)
    THEN Append(out, Slice(expr, i, Len(expr) + 1))
    ELSE LET char == expr[loc]
             end_delimiter == match_and_return_second(char, delimiters)
             pushed == IF end_delimiter # None
                       THEN Append(stack, end_delimiter.s)
                       ELSE stack
         IN  IF Len(stack) = 0
             THEN IF char = seperator
                  THEN smart_split_loop(expr, seperator, delimiters, loc + 1,
                                        loc + 1, stack,
                                        Append(out, Slice(expr, i, loc)))
                  ELSE smart_split_loop(expr, seperator, delimiters, loc + 1,
                                        i, pushed, out)
             ELSE IF char = stack[Len(stack)]
                  THEN smart_split_loop(expr, seperator, delimiters, loc + 1,
                                        i, SubSeq(stack, 1, Len(stack) - 1), out)
                  ELSE smart_split_loop(expr, seperator, delimiters, loc + 1,
                                        i, pushed, out)

\* A slip: an opening delimiter met while another is open is not pushed.
RECURSIVE smart_split_single_slot(_, _, _, _, _, _, _)
smart_split_single_slot(expr, seperator, delimiters, loc, i, stack, out) ==
    IF loc > Len(expr)
    THEN Append(out, Slice(expr, i, Len(expr) + 1))
    ELSE LET char == expr[loc]
             end_delimiter == match_and_return_second(char, delimiters)
         IN  IF Len(stack) = 0
             THEN IF char = seperator
                  THEN smart_split_single_slot(expr, seperator, delimiters,
                           loc + 1, loc + 1, stack,
                           Append(out, Slice(expr, i, loc)))
                  ELSE smart_split_single_slot(expr, seperator, delimiters,
                           loc + 1, i,
                           IF end_delimiter # None
                           THEN Append(stack, end_delimiter.s) ELSE stack,
                           out)
             ELSE IF char = stack[Len(stack)]
                  THEN smart_split_single_slot(expr, seperator, delimiters,
                           loc + 1, i, SubSeq(stack, 1, Len(stack) - 1), out)
                  ELSE smart_split_single_slot(expr, seperator, delimiters,
                           loc + 1, i, stack, out)

smart_split_innermost_only(expr, seperator, delimiters) ==
    smart_split_single_slot(expr, seperator, delimiters, 1, 1, <<>>, <<>>)

smart_split(expr, seperator, delimiters) ==
    smart_split_loop(expr, seperator, delimiters, 1, 1, <<>>, <<>>)

(***************************************************************************)
(* str methods the parser uses (texts of the model are ASCII).             *)
(***************************************************************************)
Digits == <<"0", "1", "2", "3", "4", "5", "6", "7", "8", "9">>
DigitChars == {Digits[k] : k \in 1..10}
Letters == {"a", "b", "c", "d", "e", "f", "g", "h", "i", "j", "k", "l", "m",
            "n", "o", "p", "q", "r", "s", "t", "u", "v", "w", "x", "y", "z",
            "F", "N", "T", "_"}

\* str.isnumeric()
isnumeric(s) == Len(s) > 0 /\ \A k \in 1..Len(s) : s[k] \in DigitChars

\* str.isidentifier()
isidentifier(s) ==
    /\ Len(s) > 0
    /\ s[1] \in Letters
    /\ \A k \in 1..Len(s) : s[k] \in Letters \cup DigitChars

\* str.find(c): the 1-based place of the first c, 0 when there is none
\* (Python's 0-based place and -1)
find(s, c) ==
    IF \E k \in 1..Len(s) : s[k] = c
    THEN CHOOSE k \in 1..Len(s) : s[k] = c /\ \A j \in 1..(k - 1) : s[j] # c
    ELSE 0

DigitVal(c) == (CHOOSE k \in 1..10 : Digits[k] = c) - 1

\* int(s) of a text of digits
RECURSIVE int(_)
int(s) == IF Len(s) = 0 THEN 0
          ELSE 10 * int(SubSeq(s, 1, Len(s) - 1)) + DigitVal(s[Len(s)])

\* str(n) of a natural number
RECURSIVE str(_)
str(n) == IF n < 10 THEN <<Digits[n + 1]>>
          ELSE str(n \div 10) \o <<Digits[(n % 10) + 1]>>

(***************************************************************************)
(* Expression nodes.                                                       *)
(***************************************************************************)
StringExpression(val) == [cls |-> "StringExpression", val |-> val]
IntExpression(val) == [cls |-> "IntExpression", ival |-> val]
BoolExpression(val) == [cls |-> "BoolExpression", bval |-> val]
NoneExpression == [cls |-> "NoneExpression"]
ArrayExpression(elements) ==
    [cls |-> "ArrayExpression", elements_expression |-> elements]
\* dict_expression is the dict's items in insertion order
DictExpression(items) == [cls |-> "DictExpression", dict_expression |-> items]
VariableExpression(var_name) ==
    [cls |-> "VariableExpression", var_name |-> var_name]
PropertyExpression(root, key_path) ==
    [cls |-> "PropertyExpression", root_expression |-> root,
     key_path |-> key_path]
SettablePropertyExpression(root, key_path) ==
    [cls |-> "SettablePropertyExpression", root_expression |-> root,
     key_path |-> key_path]

\* isinstance(e, SettableExpression)
IsSettable(e) == e.cls \in {"VariableExpression", "SettablePropertyExpression"}
\* isinstance(e, Expression)
IsExpression(e) ==
    e.cls \in {"StringExpression", "IntExpression", "BoolExpression",
               "NoneExpression", "ArrayExpression", "DictExpression",
               "VariableExpression", "PropertyExpression",
               "SettablePropertyExpression"}

\* dict(pairs): a key met again keeps its place and takes the later value
RECURSIVE dict(_, _, _)
dict(pairs, k, acc) ==
    IF k > Len(pairs) THEN acc
    ELSE IF \E j \in 1..Len(acc) : acc[j].key = pairs[k].key
    THEN dict(pairs, k + 1,
              [j \in 1..Len(acc) |->
                  IF acc[j].key = pairs[k].key THEN pairs[k] ELSE acc[j]])
    ELSE dict(pairs, k + 1, Append(acc, pairs[k]))

\* the first exception a comprehension over `results` raises
FirstRaise(results) ==
    results[CHOOSE k \in 1..Len(results) :
                /\ IsRaise(results[k])
                /\ \A j \in 1..(k - 1) : ~IsRaise(results[j])]
AnyRaise(results) == \E k \in 1..Len(results) : IsRaise(results[k])

(***************************************************************************)
(* The parser.                                                             *)
(***************************************************************************)
Whitespace == {" ", "\t", "\n"}

\* On the empty text neither loop runs and i is read unbound.
remove_whitespaces_on_boundaries(s) ==
    IF Len(s) = 0 THEN Raise("UnboundLocalError", s)
    ELSE LET black == {p \in 1..Len(s) : s[p] \notin Whitespace}
             i == IF black = {} THEN Len(s)
                  ELSE CHOOSE p \in black : \A q \in black : p <= q
             tail == {p \in black : p >= i}
             j == IF tail = {} THEN i
                  ELSE CHOOSE p \in tail : \A q \in tail : q <= p
         IN  Str(Slice(s, i, j + 1))

StringExpression_try_parse(e) ==
    IF Len(e) >= 2 /\ e[1] = e[Len(e)] /\ (e[1] = "'" \/ e[1] = "'")
    THEN StringExpression(Slice(e, 2, Len(e)))
    ELSE None

IntExpression_try_parse(e) ==
    IF isnumeric(e) THEN IntExpression(int(e)) ELSE None

BoolExpression_try_parse(e) ==
    IF e = <<"T", "r", "u", "e">> \/ e = <<"t", "r", "u", "e">>
    THEN BoolExpression(TRUE)
    ELSE IF e = <<"F", "a", "l", "s", "e">>
            \/ e = <<"f", "a", "l", "s", "e">>
    THEN BoolExpression(FALSE)
    ELSE None

NoneExpression_try_parse(e) ==
    IF e = <<"N", "o", "n", "e">> \/ e = <<"n", "u", "l", "l">>
    THEN NoneExpression
    ELSE None

VariableExpression_try_parse(e) ==
    IF isidentifier(e) THEN VariableExpression(e) ELSE None

RECURSIVE parse_expression(_)

ArrayExpression_try_parse(e) ==
    IF ~(Len(e) >= 2 /\ e[1] = "[" /\ e[Len(e)] = "]") THEN None
    ELSE LET parts == smart_split(Slice(e, 2, Len(e)), ",", common_delimiters)
             parsed == [k \in 1..Len(parts) |-> parse_expression(parts[k])]
         IN  IF AnyRaise(parsed) THEN FirstRaise(parsed)
             ELSE ArrayExpression(parsed)

\* split_part of DictExpression.try_parse
split_part(part) ==
    LET seperator == find(part, ":")
    IN  IF seperator = 0
        THEN Raise("TemplateSyntaxError", part)
        ELSE LET key == Slice(part, 1, seperator)
                 val_str == Slice(part, seperator + 1, Len(part) + 1)
                 key_expression == StringExpression_try_parse(key)
                 val == parse_expression(val_str)
             IN  IF IsRaise(val) THEN val
                 ELSE [cls |-> "item",
                       key |-> IF key_expression # None
                               THEN key_expression.val ELSE key,
                       value |-> val]

\* the bare except turns every exception into "no match"
DictExpression_try_parse(e) ==
    IF ~(Len(e) >= 2 /\ e[1] = "{" /\ e[Len(e)] = "}") THEN None
    ELSE LET parts == smart_split(Slice(e, 2, Len(e)), ",", common_delimiters)
             items == [k \in 1..Len(parts) |-> split_part(parts[k])]
         IN  IF AnyRaise(items) THEN None
             ELSE DictExpression(dict(items, 1, <<>>))

\* parse_expression raises on a root that does not parse (it never returns
\* None), and the exception leaves try_parse
PropertyExpression_try_parse(e) ==
    LET parts == smart_split(e, ".", common_delimiters)
    IN  IF Len(parts) <= 1 THEN None
        ELSE LET root_expression == parse_expression(parts[1])
                 key_path == SubSeq(parts, 2, Len(parts))
             IN  IF IsRaise(root_expression) THEN root_expression
                 ELSE IF root_expression = None THEN None
                 ELSE IF \E k \in 1..Len(key_path) : ~isidentifier(key_path[k])
                 THEN None
                 ELSE IF IsSettable(root_expression)
                 THEN SettablePropertyExpression(root_expression, key_path)
                 ELSE PropertyExpression(root_expression, key_path)

\* the chain of elif's from the k-th variant on: the first try_parse that
\* returns a node wins, one that raises ends the chain
try_parse(k, e) ==
    CASE k = 1 -> StringExpression_try_parse(e)
      [] k = 2 -> BoolExpression_try_parse(e)
      [] k = 3 -> IntExpression_try_parse(e)
      [] k = 4 -> NoneExpression_try_parse(e)
      [] k = 5 -> ArrayExpression_try_parse(e)
      [] k = 6 -> DictExpression_try_parse(e)
      [] k = 7 -> VariableExpression_try_parse(e)
      [] k = 8 -> PropertyExpression_try_parse(e)

RECURSIVE parse_chain(_, _)
parse_chain(k, e) ==
    IF k > 8 THEN Raise("TemplateSyntaxError", e)
    ELSE LET exp == try_parse(k, e)
         IN  IF exp = None THEN parse_chain(k + 1, e) ELSE exp

parse_expression(text) ==
    LET trimmed == remove_whitespaces_on_boundaries(text)
    IN  IF IsRaise(trimmed) THEN trimmed
        ELSE LET e == trimmed.s
             IN  IF e[1] = "(" /\ e[Len(e)] = ")"
                 THEN parse_expression(Slice(e, 2, Len(e)))
                 ELSE parse_chain(1, e)

(***************************************************************************)
(* The collaborators of core/base.py, as the core uses them.               *)
(***************************************************************************)
\* a reactive variable: its name and the expression it wraps
ReactVar(name, expr) == [cls |-> "ReactVar", name |-> name, expression |-> expr]

\* the code the accessors of a reactive variable generate: opaque to the
\* core, one marker followed by the variable's name
ReactVar_js_get(var) == <<"$get(">> \o var.name \o <<")">>
ReactVar_js_set(var, js_expression) ==
    <<"$set(">> \o var.name \o <<",">> \o js_expression \o <<")">>
ReactVar_js_notify(var) == <<"$notify(">> \o var.name \o <<")">>

\* a reactive context is the set of its registered variables
ReactContext(registered) == [cls |-> "ReactContext", registered |-> registered]

search_var(react_context, var_name) ==
    IF \E v \in react_context.registered : v.name = var_name
    THEN CHOOSE v \in react_context.registered : v.name = var_name
    ELSE None

\* host values and Python values
PyInt(n) == [cls |-> "int", i |-> n]
PyBool(b) == [cls |-> "bool", b |-> b]
PyList(items) == [cls |-> "list", items |-> items]
PyDict(items) == [cls |-> "dict", items |-> items]
PyItem(key, value) == [cls |-> "item", key |-> key, value |-> value]

value_to_expression(val) ==
    CASE val.cls = "str" -> StringExpression(val.s)
      [] val.cls = "int" -> IntExpression(val.i)
      [] val.cls = "bool" -> BoolExpression(val.b)
      [] OTHER -> NoneExpression

(***************************************************************************)
(* reduce                                                                  *)
(***************************************************************************)
\* a template context maps the names it holds to host values
VariableExpression_reduce(self, template_context) ==
    IF self.var_name \in DOMAIN template_context
    THEN value_to_expression(template_context[self.var_name])
    ELSE self

RECURSIVE reduce(_, _)
reduce(self, template_context) ==
    CASE self.cls = "ArrayExpression" ->
           ArrayExpression([k \in 1..Len(self.elements_expression) |->
               reduce(self.elements_expression[k], template_context)])
      [] self.cls = "DictExpression" ->
           DictExpression([k \in 1..Len(self.dict_expression) |->
               PyItem(self.dict_expression[k].key,
                    reduce(self.dict_expression[k].value, template_context))])
      [] self.cls = "VariableExpression" ->
           VariableExpression_reduce(self, template_context)
      [] self.cls = "PropertyExpression" ->
           PropertyExpression(reduce(self.root_expression, template_context),
                              self.key_path)
      [] self.cls = "SettablePropertyExpression" ->
           SettablePropertyExpression(
               reduce(self.root_expression, template_context), self.key_path)
      [] OTHER -> self

(***************************************************************************)
(* eval_initial                                                            *)
(***************************************************************************)
VariableExpression_var(self, react_context) ==
    IF react_context = None
    THEN Raise("Exception", self.var_name)
    ELSE search_var(react_context, self.var_name)

\* Python's `key in current` and `current[key]` for a str key
IsSubstring(key, s) ==
    \E p \in 1..(Len(s) - Len(key) + 1) : SubSeq(s, p, p + Len(key) - 1) = key

contains(current, key) ==
    CASE current.cls = "dict" ->
           PyBool(\E k \in 1..Len(current.items) : current.items[k].key = key)
      [] current.cls = "str" -> PyBool(IsSubstring(key, current.s))
      [] current.cls = "list" ->
           PyBool(\E k \in 1..Len(current.items) : current.items[k] = Str(key))
      [] OTHER -> Raise("TypeError", key)

getitem(current, key) ==
    IF current.cls = "dict"
    THEN current.items[CHOOSE k \in 1..Len(current.items) :
                           current.items[k].key = key].value
    ELSE Raise("TypeError", key)

\* the loop of PropertyExpression.eval_initial from the k-th key on
RECURSIVE walk_key_path(_, _, _)
walk_key_path(current, key_path, k) ==
    IF k > Len(key_path) THEN current
    ELSE LET has == contains(current, key_path[k])
         IN  IF IsRaise(has) THEN has
             ELSE IF has.b
             THEN LET next == getitem(current, key_path[k])
                  IN  IF IsRaise(next) THEN next
                      ELSE walk_key_path(next, key_path, k + 1)
             ELSE Raise("TemplateSyntaxError", key_path[k])

RECURSIVE eval_initial(_, _)

\* the loop ends and the method returns nothing
PropertyExpression_eval_initial(self, react_context) ==
    LET root_val == eval_initial(self.root_expression, react_context)
    IN  IF IsRaise(root_val) THEN root_val
        ELSE LET current == walk_key_path(root_val, self.key_path, 1)
             IN  IF IsRaise(current) THEN current ELSE None

VariableExpression_eval_initial(self, react_context) ==
    LET var == VariableExpression_var(self, react_context)
    IN  IF IsRaise(var) THEN var
        ELSE IF var # None THEN eval_initial(var.expression, react_context)
        ELSE Str(<<>>)

ArrayExpression_eval_initial(self, react_context) ==
    LET vals == [k \in 1..Len(self.elements_expression) |->
                    eval_initial(self.elements_expression[k], react_context)]
    IN  IF AnyRaise(vals) THEN FirstRaise(vals) ELSE PyList(vals)

DictExpression_eval_initial(self, react_context) ==
    LET vals == [k \in 1..Len(self.dict_expression) |->
                    eval_initial(self.dict_expression[k].value, react_context)]
    IN  IF AnyRaise(vals) THEN FirstRaise(vals)
        ELSE PyDict([k \in 1..Len(vals) |->
                      PyItem(self.dict_expression[k].key, vals[k])])

eval_initial(self, react_context) ==
    CASE self.cls = "StringExpression" -> Str(self.val)
      [] self.cls = "IntExpression" -> PyInt(self.ival)
      [] self.cls = "BoolExpression" -> PyBool(self.bval)
      [] self.cls = "NoneExpression" -> None
      [] self.cls = "ArrayExpression" ->
           ArrayExpression_eval_initial(self, react_context)
      [] self.cls = "DictExpression" ->
           DictExpression_eval_initial(self, react_context)
      [] self.cls = "VariableExpression" ->
           VariableExpression_eval_initial(self, react_context)
      [] self.cls \in {"PropertyExpression", "SettablePropertyExpression"} ->
           PropertyExpression_eval_initial(self, react_context)

(***************************************************************************)
(* eval_js_and_hooks                                                       *)
(***************************************************************************)
\* the tuple (js_expression, hooks)
JsAndHooks(js, hooks) == [cls |-> "tuple", js |-> js, hooks |-> hooks]

\* ",".join(pieces)
RECURSIVE join(_, _)
join(sep, pieces) ==
    IF Len(pieces) = 0 THEN <<>>
    ELSE IF Len(pieces) = 1 THEN pieces[1]
    ELSE pieces[1] \o sep \o join(sep, Tail(pieces))

\* A slip: each child's hooks are put in front of those collected so far.
RECURSIVE extend_all_reversed(_)
extend_all_reversed(results) ==
    IF Len(results) = 0 THEN <<>>
    ELSE extend_all_reversed(Tail(results)) \o results[1].hooks

\* all_hooks after extending it with each child's hooks in turn
RECURSIVE extend_all(_)
extend_all(results) ==
    IF Len(results) = 0 THEN <<>>
    ELSE results[1].hooks \o extend_all(Tail(results))

StringExpression_eval_js_and_hooks(self, react_context) ==
    JsAndHooks(<<"'">> \o self.val \o <<"'">>, <<>>)

IntExpression_eval_js_and_hooks(self, react_context) ==
    JsAndHooks(str(self.ival), <<>>)

BoolExpression_eval_js_and_hooks(self, react_context) ==
    JsAndHooks(IF self.bval THEN <<"t", "r", "u", "e">>
               ELSE <<"f", "a", "l", "s", "e">>, <<>>)

NoneExpression_eval_js_and_hooks(self, react_context) ==
    JsAndHooks(<<"n", "u", "l", "l">>, <<>>)

RECURSIVE eval_js_and_hooks(_, _)

ArrayExpression_eval_js_and_hooks(self, react_context) ==
    LET results == [k \in 1..Len(self.elements_expression) |->
            eval_js_and_hooks(self.elements_expression[k], react_context)]
    IN  IF AnyRaise(results) THEN FirstRaise(results)
        ELSE JsAndHooks(
                 <<"[">>
                 \o join(<<",">>, [k \in 1..Len(results) |-> results[k].js])
                 \o <<"]">>,
                 extend_all(results))

DictExpression_eval_js_and_hooks(self, react_context) ==
    LET results == [k \in 1..Len(self.dict_expression) |->
            eval_js_and_hooks(self.dict_expression[k].value, react_context)]
    IN  IF AnyRaise(results) THEN FirstRaise(results)
        ELSE JsAndHooks(
                 <<"{">>
                 \o join(<<",">>, [k \in 1..Len(results) |->
                        self.dict_expression[k].key \o <<":">> \o results[k].js])
                 \o <<"}">>,
                 extend_all(results))

VariableExpression_eval_js_and_hooks(self, react_context) ==
    LET var == VariableExpression_var(self, react_context)
    IN  IF IsRaise(var) THEN var
        ELSE IF var # None THEN JsAndHooks(ReactVar_js_get(var), <<var>>)
        ELSE eval_js_and_hooks(value_to_expression(Str(<<>>)), react_context)

PropertyExpression_eval_js_and_hooks(self, react_context) ==
    LET root == eval_js_and_hooks(self.root_expression, react_context)
    IN  IF IsRaise(root) THEN root
        ELSE JsAndHooks(<<"(">> \o root.js \o <<")", ".">>
                        \o join(<<".">>, self.key_path),
                        root.hooks)

eval_js_and_hooks(self, react_context) ==
    CASE self.cls = "StringExpression" ->
           StringExpression_eval_js_and_hooks(self, react_context)
      [] self.cls = "IntExpression" ->
           IntExpression_eval_js_and_hooks(self, react_context)
      [] self.cls = "BoolExpression" ->
           BoolExpression_eval_js_and_hooks(self, react_context)
      [] self.cls = "NoneExpression" ->
           NoneExpression_eval_js_and_hooks(self, react_context)
      [] self.cls = "ArrayExpression" ->
           ArrayExpression_eval_js_and_hooks(self, react_context)
      [] self.cls = "DictExpression" ->
           DictExpression_eval_js_and_hooks(self, react_context)
      [] self.cls = "VariableExpression" ->
           VariableExpression_eval_js_and_hooks(self, react_context)
      [] self.cls \in {"PropertyExpression", "SettablePropertyExpression"} ->
           PropertyExpression_eval_js_and_hooks(self, react_context)

\* a call of the method with the positional arguments args: the method takes
\* react_context and nothing else
call_eval_js_and_hooks(self, args) ==
    IF Len(args) # 1 THEN Raise("TypeError", <<>>)
    ELSE eval_js_and_hooks(self, args[1])

(***************************************************************************)
(* js_set and js_notify                                                    *)
(***************************************************************************)
VariableExpression_js_set(self, react_context, js_expression) ==
    LET var == VariableExpression_var(self, react_context)
    IN  IF IsRaise(var) THEN var
        ELSE IF var = None THEN Raise("TemplateSyntaxError", self.var_name)
        ELSE Str(ReactVar_js_set(var, js_expression))

VariableExpression_js_notify(self, react_context) ==
    LET var == VariableExpression_var(self, react_context)
    IN  IF IsRaise(var) THEN var
        ELSE IF var = None THEN Raise("TemplateSyntaxError", self.var_name)
        ELSE Str(ReactVar_js_notify(var))

\* a node of another class has no js_notify
RECURSIVE js_notify(_, _)
js_notify(self, react_context) ==
    CASE self.cls = "VariableExpression" ->
           VariableExpression_js_notify(self, react_context)
      [] self.cls = "SettablePropertyExpression" ->
           js_notify(self.root_expression, react_context)
      [] OTHER -> Raise("AttributeError", <<>>)

\* A slip: the notification is put before the assignment.
SettablePropertyExpression_js_set_notify_first(self, react_context, js_expression) ==
    LET path == eval_js_and_hooks(self, react_context)
        notify == js_notify(self, react_context)
    IN  IF IsRaise(path) THEN path
        ELSE IF IsRaise(notify) THEN notify
        ELSE Str(notify.s \o <<";", " ">> \o path.js \o <<" ", "=", " ">>
                 \o js_expression)

SettablePropertyExpression_js_set(self, react_context, js_expression) ==
    LET path == eval_js_and_hooks(self, react_context)
        notify == js_notify(self, react_context)
    IN  IF IsRaise(path) THEN path
        ELSE IF IsRaise(notify) THEN notify
        ELSE Str(path.js \o <<" ", "=", " ">> \o js_expression \o <<";", " ">>
                 \o notify.s)

js_set(self, react_context, js_expression) ==
    CASE self.cls = "VariableExpression" ->
           VariableExpression_js_set(self, react_context, js_expression)
      [] self.cls = "SettablePropertyExpression" ->
           SettablePropertyExpression_js_set(self, react_context, js_expression)
      [] OTHER -> Raise("AttributeError", <<>>)

(***************************************************************************)
(* LengthFunction                                                          *)
(***************************************************************************)
LengthFunction_validate_args(args) ==
    IF Len(args) # 1 THEN Raise("TemplateSyntaxError", <<>>) ELSE None

\* len(value)
len(value) ==
    CASE value.cls = "str" -> PyInt(Len(value.s))
      [] value.cls \in {"list", "dict"} -> PyInt(Len(value.items))
      [] OTHER -> Raise("TypeError", <<>>)

LengthFunction_eval_initial(reactive_context, args) ==
    LET valid == LengthFunction_validate_args(args)
    IN  IF IsRaise(valid) THEN valid
        ELSE LET val == eval_initial(args[1], reactive_context)
             IN  IF IsRaise(val) THEN val ELSE len(val)

\* eval_js_and_hooks is called with the delimiter as a second argument
LengthFunction_eval_js(reactive_context, delimiter, args) ==
    LET valid == LengthFunction_validate_args(args)
    IN  IF IsRaise(valid) THEN valid
        ELSE LET array == call_eval_js_and_hooks(
                              args[1], <<reactive_context, delimiter>>)
             IN  IF IsRaise(array) THEN array
                 ELSE Str(<<"(">> \o array.js
                          \o <<")", ".", "l", "e", "n", "g", "t", "h">>)

(***************************************************************************)
(* The tokenizer on its own: texts whose delimiters are properly nested.   *)
(***************************************************************************)
\* the delimiters and the two separators the parser splits on; each separator
\* is an ordinary character when the other is split on
SplitChars == {"(", ")", "[", "]", "{", "}", ",", "."}
Separators == {",", "."}

Opens == {common_delimiters[k][1] : k \in 1..Len(common_delimiters)}
Closes == {common_delimiters[k][2] : k \in 1..Len(common_delimiters)}
CloseOf(c) == (CHOOSE k \in 1..Len(common_delimiters) :
                   common_delimiters[k][1] = c)

RECURSIVE Balanced(_, _, _)
Balanced(s, p, open) ==
    IF p > Len(s) THEN open = <<>>
    ELSE IF s[p] \in Opens THEN Balanced(s, p + 1, Append(open, s[p]))
    ELSE IF s[p] \in Closes
         THEN /\ open # <<>>
              /\ common_delimiters[CloseOf(open[Len(open)])][2] = s[p]
              /\ Balanced(s, p + 1, SubSeq(open, 1, Len(open) - 1))
    ELSE Balanced(s, p + 1, open)

ProperlyNested(s) == Balanced(s, 1, <<>>)

\* the properly nested texts of length n: an ordinary character and a nested
\* text, or a delimited nested text and a nested text
RECURSIVE NestedOfLen(_)
NestedOfLen(n) ==
    IF n = 0 THEN {<<>>}
    ELSE {<<c>> \o rest : c \in SplitChars \ (Opens \cup Closes),
                          rest \in NestedOfLen(n - 1)}
         \cup UNION {
               {<<common_delimiters[d][1]>> \o inner
                \o <<common_delimiters[d][2]>> \o rest :
                    d \in 1..Len(common_delimiters),
                    inner \in NestedOfLen(k), rest \in NestedOfLen(n - 2 - k)}
               : k \in 0..(n - 2)}

NestedTexts == UNION {NestedOfLen(n) : n \in 0..MaxSplitLen}

InitSplit ==
    /\ expression \in NestedTexts
    /\ node = NoNode
    /\ call = NoCall
    /\ ret = NoNode

CallSmartSplit(sep) ==
    /\ call.op = "none"
    /\ call' = [op |-> "smart_split", sep |-> sep]
    /\ ret' = smart_split(expression, sep, common_delimiters)
    /\ UNCHANGED <<expression, node>>

NextSplit == \E sep \in Separators : CallSmartSplit(sep)

SpecSplit == InitSplit /\ [][NextSplit]_vars

(***************************************************************************)
(* The compiler: a text is parsed, the tree is reduced against host        *)
(* template contexts any number of times, and the tree at hand is          *)
(* evaluated.                                                              *)
(***************************************************************************)
\* every text over ParseChars up to MaxTextLen
ParseChars == {" ", "(", ")", "[", "]", "{", "}", ",", ".", ":", "'", "a",
               "1", "!"}
AllTexts == TextsOver(ParseChars, MaxTextLen)

\* scalar literals
DigitTexts == TextsOver({"0", "1", "9"}, MaxDigits) \ {<<>>}
KeywordTexts == {<<"T", "r", "u", "e">>, <<"t", "r", "u", "e">>,
                 <<"F", "a", "l", "s", "e">>, <<"f", "a", "l", "s", "e">>,
                 <<"N", "o", "n", "e">>, <<"n", "u", "l", "l">>}
Quotes == {"'", "\""}
QuotedTexts == {<<q>> \o body \o <<q>> :
                    q \in Quotes, body \in TextsOver({"a", " ", "'"}, MaxBody)}
LiteralTexts == DigitTexts \cup KeywordTexts \cup QuotedTexts

\* dict literals: 'key':value entries, a comma or a comma and a blank
\* between them
EntryKeys == {<<"a">>, <<"b">>}
EntryValues == {<<"1">>, <<"[", "2", ",", "3", "]">>}
EntryTexts == {<<"'">> \o key \o <<"'", ":">> \o blank \o value :
                   key \in EntryKeys, blank \in {<<>>, <<" ">>},
                   value \in EntryValues}
RECURSIVE EntryLists(_)
EntryLists(n) ==
    IF n = 1 THEN EntryTexts
    ELSE {body \o comma \o entry :
              body \in EntryLists(n - 1), comma \in {<<",">>, <<",", " ">>},
              entry \in EntryTexts}
DictTexts == {<<"{">> \o body \o <<"}">> :
                  body \in UNION {EntryLists(n) : n \in 1..MaxEntries}}

\* nested expressions over variables and literals
AtomTexts == {<<"x">>, <<"y">>, <<"1">>, <<"t", "r", "u", "e">>}
VarTexts == {<<"x">>, <<"y">>}
RECURSIVE ExprTexts(_)
ExprTexts(depth) ==
    IF depth = 0 THEN AtomTexts
    ELSE LET inner == ExprTexts(depth - 1)
         IN  AtomTexts
             \cup {<<"[">> \o e \o <<",">> \o v \o <<"]">> :
                       e \in inner, v \in VarTexts}
             \cup {<<"{", "'", "a", "'", ":">> \o e
                   \o <<",", "'", "b", "'", ":">> \o v \o <<"}">> :
                       e \in inner, v \in VarTexts}
             \cup {e \o <<".", "a">> : e \in inner}

Inputs == AllTexts \cup LiteralTexts \cup DictTexts \cup ExprTexts(MaxDepth)

\* the reactive contexts handed to the evaluations: none, one that knows x,
\* one that knows x, y and a variable named true
VarX == ReactVar(<<"x">>,
                 DictExpression(<<PyItem(<<"a">>, IntExpression(1))>>))
VarY == ReactVar(<<"y">>, StringExpression(<<"s">>))
VarTrue == ReactVar(<<"t", "r", "u", "e">>, IntExpression(0))
ReactContexts == {None, ReactContext({VarX}),
                  ReactContext({VarX, VarY, VarTrue})}

\* the host template contexts handed to reduce
TemplateContexts ==
    {<<>>,
     [name \in {<<"x">>} |-> PyInt(5)],
     [name \in {<<"y">>} |-> Str(<<"s">>)]}

\* the code assigned by js_set, the delimiter handed to eval_js
ValueCodes == {<<"5">>}
Delimiters == {","}

Init ==
    /\ expression \in Inputs
    /\ node = NoNode
    /\ call = NoCall
    /\ ret = NoNode

Parse ==
    /\ call.op = "none"
    /\ call' = [op |-> "parse_expression"]
    /\ ret' = parse_expression(expression)
    /\ node' = IF IsRaise(ret') THEN NoNode ELSE ret'
    /\ UNCHANGED expression

PropertyTryParse ==
    /\ call.op = "none"
    /\ call' = [op |-> "PropertyExpression.try_parse"]
    /\ ret' = PropertyExpression_try_parse(expression)
    /\ UNCHANGED <<expression, node>>

\* a tree is at hand and has not been evaluated yet
Ready == IsExpression(node) /\ call.op \in {"parse_expression", "reduce"}

Reduce(template_context) ==
    /\ Ready
    /\ call' = [op |-> "reduce", template_context |-> template_context]
    /\ node' = reduce(node, template_context)
    /\ ret' = node'
    /\ UNCHANGED expression

EvalInitial(react_context) ==
    /\ Ready
    /\ call' = [op |-> "eval_initial", react_context |-> react_context]
    /\ ret' = eval_initial(node, react_context)
    /\ UNCHANGED <<expression, node>>

EvalJsAndHooks(react_context) ==
    /\ Ready
    /\ call' = [op |-> "eval_js_and_hooks", react_context |-> react_context]
    /\ ret' = eval_js_and_hooks(node, react_context)
    /\ UNCHANGED <<expression, node>>

JsSet(react_context, js_expression) ==
    /\ Ready
    /\ IsSettable(node)
    /\ call' = [op |-> "js_set", react_context |-> react_context,
                js_expression |-> js_expression]
    /\ ret' = js_set(node, react_context, js_expression)
    /\ UNCHANGED <<expression, node>>

JsNotify(react_context) ==
    /\ Ready
    /\ IsSettable(node)
    /\ call' = [op |-> "js_notify", react_context |-> react_context]
    /\ ret' = js_notify(node, react_context)
    /\ UNCHANGED <<expression, node>>

\* the argument lists handed to the length function: the tree, nothing, the
\* tree twice
ArgLists == {<<node>>, <<>>, <<node, node>>}

LengthEvalInitial(react_context, args) ==
    /\ Ready
    /\ call' = [op |-> "LengthFunction.eval_initial",
                react_context |-> react_context, args |-> args]
    /\ ret' = LengthFunction_eval_initial(react_context, args)
    /\ UNCHANGED <<expression, node>>

LengthEvalJs(react_context, delimiter, args) ==
    /\ Ready
    /\ call' = [op |-> "LengthFunction.eval_js",
                react_context |-> react_context, delimiter |-> delimiter,
                args |-> args]
    /\ ret' = LengthFunction_eval_js(react_context, delimiter, args)
    /\ UNCHANGED <<expression, node>>

Next ==
    \/ Parse
    \/ PropertyTryParse
    \/ \E template_context \in TemplateContexts : Reduce(template_context)
    \/ \E react_context \in ReactContexts :
          \/ EvalInitial(react_context)
          \/ EvalJsAndHooks(react_context)
          \/ JsNotify(react_context)
          \/ \E js_expression \in ValueCodes : JsSet(react_context, js_expression)
          \/ \E args \in ArgLists :
                \/ LengthEvalInitial(react_context, args)
                \/ \E delimiter \in Delimiters :
                      LengthEvalJs(react_context, delimiter, args)

Spec == Init /\ [][Next]_vars

(***************************************************************************)
(* C9: for a properly nested text, smart_split yields, in order, exactly   *)
(* the pieces between the separators at nesting depth 0; there is one      *)
(* piece more than there are such separators.                              *)
(***************************************************************************)
Depth(s, p) == Cardinality({q \in 1..(p - 1) : s[q] \in Opens})
               - Cardinality({q \in 1..(p - 1) : s[q] \in Closes})

TopCuts(s, sep) == {p \in 1..Len(s) : s[p] = sep /\ Depth(s, p) = 0}

\* the j-th piece between the cuts, counted from 1
PieceBetween(s, cuts, j) ==
    LET before == {p \in cuts : Cardinality({q \in cuts : q < p}) = j - 2}
        after == {p \in cuts : Cardinality({q \in cuts : q < p}) = j - 1}
        from == IF before = {} THEN 1 ELSE (CHOOSE p \in before : TRUE) + 1
        to == IF after = {} THEN Len(s) ELSE (CHOOSE p \in after : TRUE) - 1
    IN  SubSeq(s, from, to)

\* C9: smart_split yields exactly the pieces between the depth-0 separators
C9_SplitAtDepthZero ==
    call.op = "smart_split" =>
        LET cuts == TopCuts(expression, call.sep)
        IN  /\ Len(ret) = Cardinality(cuts) + 1
            /\ \A j \in 1..Len(ret) : ret[j] = PieceBetween(expression, cuts, j)

\* a separator two delimiters deep (of different kinds) did not split, one
\* at depth 0 did
C9_Witness ==
    /\ call.op = "smart_split"
    /\ \E p \in 1..Len(expression) :
          /\ expression[p] = call.sep
          /\ Depth(expression, p) = 2
          /\ \E q, r \in 1..(p - 1) : q < r /\ expression[q] = "[" /\ expression[r] = "("
    /\ Len(ret) = 2

(***************************************************************************)
(* C1: a scalar literal text parses to the matching Int/Bool/None/String   *)
(* node, and eval_js_and_hooks of that node with no react_context returns  *)
(* the JS literal of the same value and no hooks.                          *)
(***************************************************************************)
IsDigitsText(t) == Len(t) > 0 /\ \A k \in 1..Len(t) : t[k] \in DigitChars
IsQuotedText(t) == Len(t) >= 2 /\ t[1] = t[Len(t)] /\ t[1] \in Quotes
IsScalarLiteral(t) == IsDigitsText(t) \/ t \in KeywordTexts \/ IsQuotedText(t)

\* the number a text of digits denotes, read from the left
RECURSIVE DecimalValue(_, _)
DecimalValue(t, sofar) ==
    IF Len(t) = 0 THEN sofar
    ELSE DecimalValue(Tail(t), 10 * sofar + DigitVal(Head(t)))

ExpectedLiteral(t) ==
    CASE IsDigitsText(t) -> IntExpression(DecimalValue(t, 0))
      [] t \in {<<"T", "r", "u", "e">>, <<"t", "r", "u", "e">>} ->
           BoolExpression(TRUE)
      [] t \in {<<"F", "a", "l", "s", "e">>, <<"f", "a", "l", "s", "e">>} ->
           BoolExpression(FALSE)
      [] t \in {<<"N", "o", "n", "e">>, <<"n", "u", "l", "l">>} ->
           NoneExpression
      [] IsQuotedText(t) -> StringExpression(SubSeq(t, 2, Len(t) - 1))

SameLiteral(t, js) ==
    CASE IsDigitsText(t) ->
           IsDigitsText(js) /\ DecimalValue(js, 0) = DecimalValue(t, 0)
      [] t \in {<<"T", "r", "u", "e">>, <<"t", "r", "u", "e">>} ->
           js = <<"t", "r", "u", "e">>
      [] t \in {<<"F", "a", "l", "s", "e">>, <<"f", "a", "l", "s", "e">>} ->
           js = <<"f", "a", "l", "s", "e">>
      [] t \in {<<"N", "o", "n", "e">>, <<"n", "u", "l", "l">>} ->
           js = <<"n", "u", "l", "l">>
      [] IsQuotedText(t) ->
           js = <<"'">> \o SubSeq(t, 2, Len(t) - 1) \o <<"'">>

\* C1: a scalar literal parses to its node and renders, with no context, as
\* the JS literal of the same value with no hooks
C1_LiteralRoundTrip ==
    IsScalarLiteral(expression) =>
        /\ call.op = "parse_expression" => ret = ExpectedLiteral(expression)
        /\ (call.op = "eval_js_and_hooks" /\ call.react_context = None) =>
               /\ ret.cls = "tuple"
               /\ ret.hooks = <<>>
               /\ SameLiteral(expression, ret.js)

(***************************************************************************)
(* C2: a dict literal of 'key':value entries separated by commas that may  *)
(* be followed by a blank parses to a Dict whose keys are exactly the      *)
(* unquoted key texts, each mapped to the parse of its value, and          *)
(* eval_initial with no context yields the dict of the values.             *)
(***************************************************************************)
EntryShapes == [key : EntryKeys, blank : {<<>>, <<" ">>}, value : EntryValues]
EntryText(shape) ==
    <<"'">> \o shape.key \o <<"'", ":">> \o shape.blank \o shape.value

RECURSIVE EntriesText(_, _)
EntriesText(shapes, commas) ==
    IF Len(shapes) = 1 THEN EntryText(shapes[1])
    ELSE EntryText(shapes[1]) \o commas[1]
         \o EntriesText(Tail(shapes), Tail(commas))

ValueNode(value) ==
    IF value = <<"1">> THEN IntExpression(1)
    ELSE ArrayExpression(<<IntExpression(2), IntExpression(3)>>)
ValueOf(value) ==
    IF value = <<"1">> THEN PyInt(1) ELSE PyList(<<PyInt(2), PyInt(3)>>)

\* items holds exactly the keys of shapes, each with the value wanted gives
HoldsExactly(items, shapes, wanted) ==
    /\ {items[k].key : k \in 1..Len(items)}
           = {shapes[k].key : k \in 1..Len(shapes)}
    /\ \A k \in 1..Len(shapes) : \E j \in 1..Len(items) :
           /\ items[j].key = shapes[k].key
           /\ items[j].value = wanted[shapes[k].value]

\* C2: the Dict holds exactly the unquoted keys, each with the parse (the
\* value) of what is written after its colon
C2_DictKeysUnquoted ==
    \A n \in 1..MaxEntries :
        \A shapes \in [1..n -> EntryShapes],
           commas \in [1..(n - 1) -> {<<",">>, <<",", " ">>}] :
            ( /\ expression = <<"{">> \o EntriesText(shapes, commas) \o <<"}">>
              /\ \A j, k \in 1..n : j # k => shapes[j].key # shapes[k].key )
            => /\ call.op = "parse_expression" =>
                      /\ ret.cls = "DictExpression"
                      /\ HoldsExactly(ret.dict_expression, shapes,
                                      [v \in EntryValues |-> ValueNode(v)])
               /\ (call.op = "eval_initial" /\ call.react_context = None) =>
                      /\ ret.cls = "dict"
                      /\ HoldsExactly(ret.items, shapes,
                                      [v \in EntryValues |-> ValueOf(v)])

(***************************************************************************)
(* C3: parse_expression returns a node or fails with the                   *)
(* TemplateSyntaxError "cannot parse expression", whatever the text.       *)
(***************************************************************************)
\* C3: parse_expression returns a node or raises TemplateSyntaxError
C3_OnlySyntaxError ==
    call.op = "parse_expression" =>
        \/ IsExpression(ret)
        \/ IsRaise(ret) /\ ret.exc = "TemplateSyntaxError"

(***************************************************************************)
(* C4: with a react_context, the hooks eval_js_and_hooks returns are the   *)
(* reactive variables of the tree's resolved Variable occurrences, depth   *)
(* first and left to right, duplicates kept; an unresolved Variable gives  *)
(* no hook and the empty-string literal; a Property returns its root's     *)
(* hooks.                                                                  *)
(***************************************************************************)
RECURSIVE Flatten(_)
Flatten(seqs) == IF Len(seqs) = 0 THEN <<>> ELSE Head(seqs) \o Flatten(Tail(seqs))

\* the names of the Variable occurrences of a tree, depth first
RECURSIVE VariableOccurrences(_)
VariableOccurrences(tree) ==
    CASE tree.cls = "VariableExpression" -> <<tree.var_name>>
      [] tree.cls = "ArrayExpression" ->
           Flatten([k \in 1..Len(tree.elements_expression) |->
                       VariableOccurrences(tree.elements_expression[k])])
      [] tree.cls = "DictExpression" ->
           Flatten([k \in 1..Len(tree.dict_expression) |->
                       VariableOccurrences(tree.dict_expression[k].value)])
      [] tree.cls \in {"PropertyExpression", "SettablePropertyExpression"} ->
           VariableOccurrences(tree.root_expression)
      [] OTHER -> <<>>

Registered(react_context, name) ==
    \E v \in react_context.registered : v.name = name

ResolvedOccurrences(tree, react_context) ==
    LET names == SelectSeq(VariableOccurrences(tree),
                           LAMBDA name : Registered(react_context, name))
    IN  [k \in 1..Len(names) |->
            CHOOSE v \in react_context.registered : v.name = names[k]]

\* C4: the hooks are the resolved Variable occurrences, depth first, left to
\* right, duplicates kept
C4_HooksDepthFirst ==
    (call.op = "eval_js_and_hooks" /\ call.react_context # None) =>
        /\ ret.cls = "tuple"
        /\ ret.hooks = ResolvedOccurrences(node, call.react_context)
        /\ ( /\ node.cls = "VariableExpression"
             /\ ~Registered(call.react_context, node.var_name) )
           => ret = [cls |-> "tuple", js |-> <<"'", "'">>, hooks |-> <<>>]
        /\ node.cls \in {"PropertyExpression", "SettablePropertyExpression"}
           => ret.hooks = ResolvedOccurrences(node.root_expression,
                                              call.react_context)

\* an array in an array, two variables, one of them twice
C4_Witness ==
    /\ call.op = "eval_js_and_hooks"
    /\ node.cls = "ArrayExpression"
    /\ node.elements_expression[1].cls = "ArrayExpression"
    /\ ret.cls = "tuple"
    /\ ret.hooks = <<VarY, VarX, VarX>>

(***************************************************************************)
(* C5: eval_initial of a Property whose root value holds every key of the  *)
(* path returns the value found by indexing the root value by each key in  *)
(* turn.                                                                   *)
(***************************************************************************)
RECURSIVE HasPath(_, _)
HasPath(value, key_path) ==
    \/ Len(key_path) = 0
    \/ /\ value.cls = "dict"
       /\ \E k \in 1..Len(value.items) :
              /\ value.items[k].key = Head(key_path)
              /\ HasPath(value.items[k].value, Tail(key_path))

RECURSIVE IndexPath(_, _)
IndexPath(value, key_path) ==
    IF Len(key_path) = 0 THEN value
    ELSE IndexPath(value.items[CHOOSE k \in 1..Len(value.items) :
                                   value.items[k].key = Head(key_path)].value,
                   Tail(key_path))

\* C5: eval_initial of a Property returns the root value indexed by the keys
C5_PropertyEvalInitial ==
    ( /\ call.op = "eval_initial"
      /\ node.cls \in {"PropertyExpression", "SettablePropertyExpression"} )
    => LET root_val == eval_initial(node.root_expression, call.react_context)
       IN  (~IsRaise(root_val) /\ HasPath(root_val, node.key_path))
           => ret = IndexPath(root_val, node.key_path)

(***************************************************************************)
(* C6: in the tree at hand, parsed and reduced any number of times, the    *)
(* root of every SettableProperty node is a Variable or a SettableProperty.*)
(***************************************************************************)
RECURSIVE SettableRootsOnly(_)
SettableRootsOnly(tree) ==
    CASE tree.cls = "ArrayExpression" ->
           \A k \in 1..Len(tree.elements_expression) :
               SettableRootsOnly(tree.elements_expression[k])
      [] tree.cls = "DictExpression" ->
           \A k \in 1..Len(tree.dict_expression) :
               SettableRootsOnly(tree.dict_expression[k].value)
      [] tree.cls = "PropertyExpression" ->
           SettableRootsOnly(tree.root_expression)
      [] tree.cls = "SettablePropertyExpression" ->
           /\ tree.root_expression.cls
                  \in {"VariableExpression", "SettablePropertyExpression"}
           /\ SettableRootsOnly(tree.root_expression)
      [] OTHER -> TRUE

\* C6: every SettableProperty of the tree at hand has a Settable root
C6_SettableRootStaysSettable == IsExpression(node) => SettableRootsOnly(node)

(***************************************************************************)
(* C7: the text x.k1...kn, x a name the react_context resolves to v,       *)
(* parses to a SettableProperty, and js_set(react_context, c) on it        *)
(* returns the node's own code, " = ", c, "; " and v.js_notify().          *)
(***************************************************************************)
DotSegments(t) ==
    LET dots == {p \in 1..Len(t) : t[p] = "."}
    IN  [j \in 1..(Cardinality(dots) + 1) |-> PieceBetween(t, dots, j)]

IsDottedPath(t) ==
    /\ \A p \in 1..Len(t) : t[p] \in Letters \cup DigitChars \cup {"."}
    /\ Len(DotSegments(t)) >= 2
    /\ \A j \in 1..Len(DotSegments(t)) : isidentifier(DotSegments(t)[j])

PathSetCode(var, keys, code) ==
    <<"(">> \o ReactVar_js_get(var) \o <<")">>
    \o Flatten([k \in 1..Len(keys) |-> <<".">> \o keys[k]])
    \o <<" ", "=", " ">> \o code \o <<";", " ">> \o ReactVar_js_notify(var)

SetsThroughPath(x, keys) ==
    /\ (call.op = "parse_expression"
        /\ \E rc \in ReactContexts \ {None} : Registered(rc, x))
       => ret = SettablePropertyExpression(VariableExpression(x), keys)
    /\ ( /\ call.op = "js_set"
         /\ node = SettablePropertyExpression(VariableExpression(x), keys)
         /\ call.react_context # None
         /\ Registered(call.react_context, x) )
       => ret = Str(PathSetCode(search_var(call.react_context, x), keys,
                                call.js_expression))

\* C7 as stated: for x any identifier the context resolves, the text parses
\* to a SettableProperty and js_set returns path code, " = ", c, "; ", notify
C7_SetThroughPath ==
    IsDottedPath(expression) =>
        SetsThroughPath(DotSegments(expression)[1], Tail(DotSegments(expression)))

\* C7 for x other than the words of the Bool and None literals (True, true,
\* False, false, None, null), which are tried before Variable
C7_SetThroughPathOfPlainName ==
    (IsDottedPath(expression) /\ DotSegments(expression)[1] \notin KeywordTexts) =>
        SetsThroughPath(DotSegments(expression)[1], Tail(DotSegments(expression)))

\* js_set through a path of two keys under a resolved root
C7_Witness ==
    /\ call.op = "js_set"
    /\ IsDottedPath(expression)
    /\ node.cls = "SettablePropertyExpression"
    /\ node.root_expression.cls = "VariableExpression"
    /\ Len(node.key_path) = 2
    /\ ret.cls = "str"

(***************************************************************************)
(* C8: LengthFunction.eval_js(context, delimiter, [a]) returns             *)
(* "(" + J + ").length", J the code of a.eval_js_and_hooks(context).       *)
(***************************************************************************)
\* C8: eval_js on one argument returns "(" + the argument's code + ").length"
C8_LengthEvalJs ==
    (call.op = "LengthFunction.eval_js" /\ Len(call.args) = 1) =>
        LET a == eval_js_and_hooks(call.args[1], call.react_context)
        IN  ~IsRaise(a) =>
               ret = Str(<<"(">> \o a.js
                         \o <<")", ".", "l", "e", "n", "g", "t", "h">>)

(***************************************************************************)
(* C10: PropertyExpression.try_parse does not raise the parser's           *)
(* SyntaxError: on a text of two or more top-level segments it returns     *)
(* "no match" when the first segment cannot be parsed and when a later     *)
(* segment is no identifier.                                               *)
(***************************************************************************)
\* C10: try_parse returns "no match", and raises nothing, when the first
\* segment cannot be parsed or a later one is no identifier
C10_TryParseNoMatch ==
    call.op = "PropertyExpression.try_parse" =>
        LET parts == smart_split(expression, ".", common_delimiters)
            root == parse_expression(parts[1])
        IN  Len(parts) >= 2 =>
                /\ (IsRaise(root) /\ root.exc = "TemplateSyntaxError")
                   => ret = None
                /\ (~IsRaise(root)
                    /\ \E k \in 2..Len(parts) : ~isidentifier(parts[k]))
                   => ret = None

====
